---- MODULE Spec2Model ----
(***************************************************************************)
(* Model of the spatial index, the location reconciliation code, the       *)
(* configuration, the validation, the export and the run of the roma-data  *)
(* pipeline:                                                               *)
(*   src/src/roma_data/spatial/index.py        SpatialIndex                *)
(*   src/src/roma_data/transform/locations.py  transform_locations,        *)
(*                                             deduplicate_locations       *)
(*   src/src/roma_data/transform/enrichment.py enrich_all,                 *)
(*                                             _assign_provinces           *)
(*   src/src/roma_data/config.py               Config                      *)
(*   src/src/roma_data/validation/checks.py    validate_database           *)
(*   src/src/roma_data/export/geojson.py       export_geojson              *)
(*   src/src/roma_data/pipeline.py             Pipeline.run                *)
(*                                                                         *)
(* Units.  Index coordinates are whole degrees, radii whole kilometres and *)
(* distances whole metres.  Location and centroid coordinates of the       *)
(* reconciliation part are in half degrees (two units per degree).         *)
(***************************************************************************)
EXTENDS Integers, Sequences, FiniteSets, TLC

VARIABLES
    cell_size,      \* SpatialIndex.cell_size
    grid,           \* SpatialIndex._grid: cell key -> sequence of entities
    call,           \* the last SpatialIndex method called, with its arguments
    result          \* what the last query returned: the list of find_within,
                    \* <<>> (None) or <<entity>> of find_nearest

indexVars == <<cell_size, grid, call, result>>

VARIABLES
    sources,        \* config.sources, the enabled sources
    missing,        \* the enabled sources whose transform() raises FileNotFoundError
    srcOut,         \* what transform() of each source returns
    provinces,      \* the records of processed/provinces.json
    locations,      \* the location list: the list a function is applied to,
                    \* and then the list it has returned (or written)
    prevLocations,  \* the list the last function was applied to
    lastOp,         \* the last function applied
    junctions       \* the junction table files enrich_all has written

locVars ==
    <<sources, missing, srcOut, provinces, locations, prevLocations, lastOp, junctions>>

VARIABLES
    config,         \* the Config object at hand: <<>> when there is none
    made,           \* what the last Config(...), from_env or with_... call
                    \* returned (<<config>>) or raised
    cfgCall         \* that call and its arguments

cfgVars == <<config, made, cfgCall>>

VARIABLES
    dbFile,         \* what is at the path of the database
    dbContent,      \* what the checks and the exporters find in the database
    outputs,        \* the output files that have been written
    report          \* the last validate_database or export_geojson call:
                    \* its arguments and what it returned or raised

dbVars == <<dbFile, dbContent, outputs, report>>

VARIABLES
    pc,             \* Pipeline.run: the stage that starts next
    trace           \* Pipeline.run: the stages started so far, each with
                    \* the way it ended

runVars == <<pc, trace>>

appVars == <<cfgVars, dbVars, runVars>>

vars == <<indexVars, locVars, appVars>>

\* No Config is built, no database is examined and no pipeline runs
AppIdle ==
    /\ config = <<>>
    /\ made = <<>>
    /\ cfgCall = [op |-> "none"]
    /\ dbFile = "absent"
    /\ dbContent = <<>>
    /\ outputs = {}
    /\ report = [op |-> "none"]
    /\ pc = "idle"
    /\ trace = <<>>

----------------------------------------------------------------------------
(* Bounds of the index model *)

MaxEntities == 2

\* <<lat, lon>> of the entities, and of the query points
IndexPoints == {<<-1, -1>>, <<1, 1>>, <<60, 0>>, <<60, 6>>}
QueryPoints == {<<0, 0>>, <<60, 6>>}
RadiiKm == {0, 112, 334}
CellSizes == {1, 2}

\* What a caller may pass where nothing is validated: a cell_size of any
\* sign, and points with a latitude above 90 or a longitude above 180
CellSizeArgs == {-1, 0, 1}
ArgumentPoints == {<<0, 0>>, <<91, 0>>, <<0, 181>>}
Payloads == {[name |-> "x"], [name |-> "y", lat |-> 60, lon |-> 0]}

----------------------------------------------------------------------------
(* SpatialIndex *)

Abs(x) == IF x >= 0 THEN x ELSE -x

\* int(x / d) of Python for d # 0: the quotient truncated toward zero.
IntDiv(x, d) ==
    IF (x >= 0) = (d > 0) THEN Abs(x) \div Abs(d) ELSE -(Abs(x) \div Abs(d))

\* math.floor(x / d), the key the cell is documented to have.
FloorDiv(x, d) == x \div d

\* int(math.ceil(km / 111.0 / cs)) + 1 for km >= 0 and cs # 0
cells_to_check(km, cs) ==
    IF cs > 0 THEN ((km + 111 * cs - 1) \div (111 * cs)) + 1
    ELSE -(km \div (111 * (-cs))) + 1

\* SpatialIndex._get_cell
_get_cell(lat, lon, cs) == <<IntDiv(lat, cs), IntDiv(lon, cs)>>

\* SpatialIndex._haversine_distance in metres: the value of the method
\* (EARTH_RADIUS_KM = 6371.0, IEEE doubles) on the coordinates of the model,
\* rounded to the nearest metre.
HaversineTable ==
    <<-1, -1, -1, -1>> :> 0 @@ <<-1, -1, 0, 0>> :> 157249
    @@ <<-1, -1, 1, 1>> :> 314499 @@ <<-1, -1, 60, 0>> :> 6783445
    @@ <<-1, -1, 60, 6>> :> 6810003
    @@
    <<0, 0, -1, -1>> :> 157249 @@ <<0, 0, 0, 0>> :> 0
    @@ <<0, 0, 1, 1>> :> 157249 @@ <<0, 0, 60, 0>> :> 6671696
    @@ <<0, 0, 60, 6>> :> 6691827
    @@
    <<1, 1, -1, -1>> :> 314499 @@ <<1, 1, 0, 0>> :> 157249
    @@ <<1, 1, 1, 1>> :> 0 @@ <<1, 1, 60, 0>> :> 6561067
    @@ <<1, 1, 60, 6>> :> 6574631
    @@
    <<60, 0, -1, -1>> :> 6783445 @@ <<60, 0, 0, 0>> :> 6671696
    @@ <<60, 0, 1, 1>> :> 6561067 @@ <<60, 0, 60, 0>> :> 0
    @@ <<60, 0, 60, 6>> :> 333470
    @@
    <<60, 6, -1, -1>> :> 6810003 @@ <<60, 6, 0, 0>> :> 6691827
    @@ <<60, 6, 1, 1>> :> 6574631 @@ <<60, 6, 60, 0>> :> 333470
    @@ <<60, 6, 60, 6>> :> 0
    @@
    <<0, 0, 91, 0>> :> 10118738 @@ <<0, 0, 0, 181>> :> 19903892
    @@
    <<91, 0, 0, 0>> :> 10118738 @@ <<91, 0, 91, 0>> :> 0
    @@ <<91, 0, 0, 181>> :> 9896365
    @@
    <<0, 181, 0, 0>> :> 19903892 @@ <<0, 181, 91, 0>> :> 9896365
    @@ <<0, 181, 0, 181>> :> 0
    @@
    <<91, 0, 60, 0>> :> 3447043
    @@
    <<0, 181, 60, 0>> :> 13342831
    @@
    <<60, 0, 91, 0>> :> 3447043 @@ <<60, 0, 0, 181>> :> 13342831

\* The value, on the points of IndexPoints and QueryPoints, of
\* _haversine_distance with cos(lat1) taken in place of cos(lat2)
HaversineTable_CosLat1 ==
    <<-1, -1, -1, -1>> :> 0 @@ <<-1, -1, 0, 0>> :> 157243
    @@ <<-1, -1, 1, 1>> :> 314499 @@ <<-1, -1, 60, 0>> :> 6784000
    @@ <<-1, -1, 60, 6>> :> 6837043
    @@
    <<0, 0, -1, -1>> :> 157255 @@ <<0, 0, 0, 0>> :> 0
    @@ <<0, 0, 1, 1>> :> 157255 @@ <<0, 0, 60, 0>> :> 6671696
    @@ <<0, 0, 60, 6>> :> 6711923
    @@
    <<1, 1, -1, -1>> :> 314499 @@ <<1, 1, 0, 0>> :> 157243
    @@ <<1, 1, 1, 1>> :> 0 @@ <<1, 1, 60, 0>> :> 6561632
    @@ <<1, 1, 60, 6>> :> 6588738
    @@
    <<60, 0, -1, -1>> :> 6783168 @@ <<60, 0, 0, 0>> :> 6671696
    @@ <<60, 0, 1, 1>> :> 6560784 @@ <<60, 0, 60, 0>> :> 0
    @@ <<60, 0, 60, 6>> :> 333470
    @@
    <<60, 6, -1, -1>> :> 6796457 @@ <<60, 6, 0, 0>> :> 6681766
    @@ <<60, 6, 1, 1>> :> 6567569 @@ <<60, 6, 60, 0>> :> 333470
    @@ <<60, 6, 60, 6>> :> 0

_haversine_distance_CosLat1(lat1, lon1, lat2, lon2) ==
    HaversineTable_CosLat1[<<lat1, lon1, lat2, lon2>>]

_haversine_distance(lat1, lon1, lat2, lon2) == HaversineTable[<<lat1, lon1, lat2, lon2>>]

\* {"lat": lat, "lon": lon, **data}: the keys of data win
Entity(lat, lon, data) == data @@ [lat |-> lat, lon |-> lon]

\* SpatialIndex.add
add(g, cs, lat, lon, data) ==
    LET cell == _get_cell(lat, lon, cs)
        e == Entity(lat, lon, data)
    IN IF cell \in DOMAIN g
       THEN [g EXCEPT ![cell] = Append(@, e)]
       ELSE g @@ (cell :> <<e>>)

\* The k-th cell of the two nested loops over dx and dy, k = 1..(2n+1)^2
ScanCell(center, n, k) ==
    <<center[1] - n + ((k - 1) \div (2 * n + 1)),
      center[2] - n + ((k - 1) % (2 * n + 1))>>

\* The cells the two nested loops visit, in the order they visit them,
\* without the cells that are not in the grid (the "continue" of the loops);
\* range(-n, n + 1) is empty when n < 0
ScanCells(g, center, n) ==
    LET InGrid(cell) == cell \in DOMAIN g
    IN IF n < 0 THEN <<>>
       ELSE SelectSeq([k \in 1..((2 * n + 1) * (2 * n + 1)) |-> ScanCell(center, n, k)],
                      InGrid)

RECURSIVE Buckets(_, _)
\* The entities of the visited cells, each bucket in insertion order
Buckets(g, cells) ==
    IF cells = <<>> THEN <<>>
    ELSE g[Head(cells)] \o Buckets(g, Tail(cells))

Scan(g, cs, lat, lon, km) ==
    Buckets(g, ScanCells(g, _get_cell(lat, lon, cs), cells_to_check(km, cs)))

RECURSIVE NearestIn_NoRange(_, _, _, _, _, _)
\* NearestIn without the test of line 69 against max_distance_km
NearestIn_NoRange(s, lat, lon, km, best, bestDist) ==
    IF s = <<>> THEN best
    ELSE LET location == Head(s)
             dist == _haversine_distance(lat, lon, location.lat, location.lon)
         IN IF bestDist = -1 \/ dist < bestDist
            THEN NearestIn_NoRange(Tail(s), lat, lon, km, <<location>>, dist)
            ELSE NearestIn_NoRange(Tail(s), lat, lon, km, best, bestDist)

RECURSIVE NearestIn_LastTie(_, _, _, _, _, _)
\* NearestIn with dist <= nearest_dist at line 69: the last of the entities
\* at the least distance is taken
NearestIn_LastTie(s, lat, lon, km, best, bestDist) ==
    IF s = <<>> THEN best
    ELSE LET location == Head(s)
             dist == _haversine_distance(lat, lon, location.lat, location.lon)
         IN IF (bestDist = -1 \/ dist <= bestDist) /\ dist <= km * 1000
            THEN NearestIn_LastTie(Tail(s), lat, lon, km, <<location>>, dist)
            ELSE NearestIn_LastTie(Tail(s), lat, lon, km, best, bestDist)

RECURSIVE NearestIn(_, _, _, _, _, _)
\* The loop body of find_nearest over the visited entities: best is the
\* entity found so far (<<>> is None), bestDist its distance (-1 is inf).
NearestIn(s, lat, lon, km, best, bestDist) ==
    IF s = <<>> THEN best
    ELSE LET location == Head(s)
             dist == _haversine_distance(lat, lon, location.lat, location.lon)
         IN IF (bestDist = -1 \/ dist < bestDist) /\ dist <= km * 1000
            THEN NearestIn(Tail(s), lat, lon, km, <<location>>, dist)
            ELSE NearestIn(Tail(s), lat, lon, km, best, bestDist)

\* SpatialIndex.find_nearest
find_nearest(g, cs, lat, lon, km) ==
    NearestIn(Scan(g, cs, lat, lon, km), lat, lon, km, <<>>, -1)

\* SpatialIndex.find_within
find_within(g, cs, lat, lon, km) ==
    LET InRange(location) ==
            _haversine_distance(lat, lon, location.lat, location.lon) <= km * 1000
    IN SelectSeq(Scan(g, cs, lat, lon, km), InRange)

\* Number of entities in the grid
RECURSIVE SumLen(_, _)
SumLen(g, cells) ==
    IF cells = {} THEN 0
    ELSE LET c == CHOOSE x \in cells : TRUE
         IN Len(g[c]) + SumLen(g, cells \ {c})

Size(g) == SumLen(g, DOMAIN g)

NoCall == [op |-> "none", lat |-> 0, lon |-> 0, km |-> 0]

\* No location list is being processed
LocIdle ==
    /\ sources = {}
    /\ missing = {}
    /\ srcOut = <<>>
    /\ provinces = <<>>
    /\ locations = <<>>
    /\ prevLocations = <<>>
    /\ lastOp = "none"
    /\ junctions = {}

\* What a call leaves in "result" when it raises
Raised(error) == <<[error |-> error]>>

\* SpatialIndex.__init__
InitIndex ==
    /\ AppIdle
    /\ cell_size \in CellSizes
    /\ grid = <<>>
    /\ call = NoCall
    /\ result = <<>>
    /\ LocIdle

\* index.add(lat, lon, data) with a point of the given set: _get_cell
\* divides by cell_size and raises ZeroDivisionError when it is 0
AddOf(points) ==
    \E p \in points, data \in Payloads :
        /\ Size(grid) < MaxEntities
        /\ IF cell_size = 0
           THEN grid' = grid /\ result' = Raised("ZeroDivisionError")
           ELSE grid' = add(grid, cell_size, p[1], p[2], data) /\ result' = <<>>
        /\ call' = [op |-> "add", lat |-> p[1], lon |-> p[2], km |-> 0]
        /\ UNCHANGED <<cell_size, locVars, appVars>>

\* index.find_nearest(lat, lon, max_distance_km) with a point of the set
FindNearestOf(points) ==
    \E p \in points, km \in RadiiKm :
        /\ result' = IF cell_size = 0 THEN Raised("ZeroDivisionError")
                      ELSE find_nearest(grid, cell_size, p[1], p[2], km)
        /\ call' = [op |-> "find_nearest", lat |-> p[1], lon |-> p[2], km |-> km]
        /\ UNCHANGED <<cell_size, grid, locVars, appVars>>

\* index.find_within(lat, lon, radius_km) with a point of the set
FindWithinOf(points) ==
    \E p \in points, km \in RadiiKm :
        /\ result' = IF cell_size = 0 THEN Raised("ZeroDivisionError")
                      ELSE find_within(grid, cell_size, p[1], p[2], km)
        /\ call' = [op |-> "find_within", lat |-> p[1], lon |-> p[2], km |-> km]
        /\ UNCHANGED <<cell_size, grid, locVars, appVars>>

Add == AddOf(IndexPoints)

FindNearest == FindNearestOf(QueryPoints)

\* FindWithin where the lookup of a cell creates its bucket, as the lookup
\* in a defaultdict would: the cell of the query point gets an empty bucket
FindWithin_CreatesBucket ==
    \E p \in QueryPoints, km \in RadiiKm :
        /\ result' = find_within(grid, cell_size, p[1], p[2], km)
        /\ call' = [op |-> "find_within", lat |-> p[1], lon |-> p[2], km |-> km]
        /\ grid' = IF _get_cell(p[1], p[2], cell_size) \in DOMAIN grid THEN grid
                    ELSE grid @@ (_get_cell(p[1], p[2], cell_size) :> <<>>)
        /\ UNCHANGED <<cell_size, locVars, appVars>>

FindWithin == FindWithinOf(QueryPoints)

NextIndex == Add \/ FindNearest \/ FindWithin

\* The index SpatialIndex() with the default cell_size
InitArguments ==
    /\ AppIdle
    /\ cell_size = 1
    /\ grid = <<>>
    /\ call = NoCall
    /\ result = <<>>
    /\ LocIdle

\* SpatialIndex(cell_size): the index is a new one, whatever cell_size is
Construct ==
    \E cs \in CellSizeArgs :
        /\ cell_size' = cs
        /\ grid' = <<>>
        /\ call' = [op |-> "__init__", lat |-> 0, lon |-> 0, km |-> 0]
        /\ result' = <<>>
        /\ UNCHANGED <<locVars, appVars>>

AddUnchecked == AddOf(ArgumentPoints)

FindNearestUnchecked == FindNearestOf(ArgumentPoints)

FindWithinUnchecked == FindWithinOf(ArgumentPoints)

NextArguments ==
    Construct \/ AddUnchecked \/ FindNearestUnchecked \/ FindWithinUnchecked

----------------------------------------------------------------------------
(* Location records.  Every value of a record is a string: None is the     *)
(* string "None", and a coordinate is the decimal numeral of the float.    *)

None == "None"

\* Bounds of the location models
MaxSourceRecords == 3
MaxDedupInput == 3

\* The sources transform_locations reads, in the order it reads them
LocationSources == {"pleiades", "orbis", "topostext"}

\* The ids a source gives its records: f"pleiades_{pleiades_id}",
\* f"orbis_{site_id}", f"topostext_{topostext_id}"
SourceIds ==
    [pleiades |-> {"pleiades_1", "pleiades_2"},
     orbis |-> {"orbis_1", "orbis_2"},
     topostext |-> {"topostext_1", "topostext_2"}]

\* The ids in the order of Python's string comparison
IdOrder ==
    <<"orbis_1", "orbis_2", "pleiades_1", "pleiades_2", "topostext_1", "topostext_2">>

IdRank(id) == CHOOSE k \in 1..Len(IdOrder) : IdOrder[k] = id

SeqsUpTo(S, n) == UNION {[1..k -> S] : k \in 0..n}

\* dict.get(key): None when the key is absent
Get(rec, key) == IF key \in DOMAIN rec THEN rec[key] ELSE None

IdsOf(locs) == {locs[i].id : i \in 1..Len(locs)}

----------------------------------------------------------------------------
(* deduplicate_locations *)

\* MergeInto where a later non-null value overwrites the value kept so far
MergeInto_LastWins(existing, loc) ==
    LET fill == {key \in DOMAIN loc : loc[key] # None}
    IN [key \in DOMAIN existing \cup fill |->
            IF key \in fill THEN loc[key] ELSE existing[key]]

\* Lines 120-124, first non-null wins: every key of loc whose value is not
\* None and that is None or absent in existing is copied into existing.
MergeInto(existing, loc) ==
    LET fill == {key \in DOMAIN loc : loc[key] # None /\ Get(existing, key) = None}
    IN [key \in DOMAIN existing \cup fill |->
            IF key \in fill THEN loc[key] ELSE existing[key]]

\* DedupLoop without the dict "seen": every record is kept
DedupLoop_KeepAll(seen, locs) == seen \o locs

RECURSIVE DedupLoop(_, _)
\* The loop of lines 114-124; seen is the list of the values of the dict
\* "seen", in the order of insertion of their keys.
DedupLoop(seen, locs) ==
    IF locs = <<>> THEN seen
    ELSE LET loc == Head(locs)
         IN IF loc.id \notin IdsOf(seen)
            THEN DedupLoop(Append(seen, loc), Tail(locs))
            ELSE DedupLoop([i \in 1..Len(seen) |->
                               IF seen[i].id = loc.id
                               THEN MergeInto(seen[i], loc) ELSE seen[i]],
                           Tail(locs))

deduplicate_locations(locs) == DedupLoop(<<>>, locs)

----------------------------------------------------------------------------
(* transform_locations *)

RECURSIVE InsertById(_, _)
\* Insertion of loc after the records whose id is not greater: a stable sort
InsertById(sorted, loc) ==
    IF sorted = <<>> THEN <<loc>>
    ELSE IF IdRank(loc.id) < IdRank(Head(sorted).id)
         THEN <<loc>> \o sorted
         ELSE <<Head(sorted)>> \o InsertById(Tail(sorted), loc)

\* SortById without the sort of line 85
SortById_Unsorted(locs) == locs

RECURSIVE SortById(_)
\* all_locations.sort(key=lambda x: x["id"])
SortById(locs) ==
    IF locs = <<>> THEN <<>>
    ELSE InsertById(SortById(SubSeq(locs, 1, Len(locs) - 1)), locs[Len(locs)])

\* AppendUnseen without the test against seen_ids
AppendUnseen_NoSeenCheck(all, locs) == all \o locs

RECURSIVE AppendUnseen(_, _)
\* for loc in locations: if loc["id"] not in seen_ids: append, add to seen_ids
AppendUnseen(all, locs) ==
    IF locs = <<>> THEN all
    ELSE AppendUnseen(IF Head(locs).id \in IdsOf(all) THEN all
                      ELSE Append(all, Head(locs)),
                      Tail(locs))

\* What source.transform() hands to transform_locations: nothing when the
\* source is not enabled or when transform() raises
Returned(enabled, miss, out, s) ==
    IF s \in enabled /\ s \notin miss THEN out[s] ELSE <<>>

\* The records of the sources in the order transform_locations reads them
Gathered(enabled, miss, out) ==
    Returned(enabled, miss, out, "pleiades")
    \o Returned(enabled, miss, out, "orbis")
    \o Returned(enabled, miss, out, "topostext")

\* transform_locations: the list written to processed/locations.json
transform_locations(enabled, miss, out) ==
    SortById(
        AppendUnseen(
            AppendUnseen(
                AppendUnseen(<<>>, Returned(enabled, miss, out, "pleiades")),
                Returned(enabled, miss, out, "orbis")),
            Returned(enabled, miss, out, "topostext")))

\* The records a source produces (pleiades.py:172-190, orbis.py:133-151,
\* topostext.py:141-164): ToposText has keys the other sources do not have.
SourceRecords(s) ==
    IF s = "topostext"
    THEN [id : SourceIds[s], name_modern : {None, "a"}, province_id : {None},
          region : {None}]
    ELSE [id : SourceIds[s], name_modern : {None, "a"}, province_id : {None}]

IndexIdle ==
    /\ cell_size = 1
    /\ grid = <<>>
    /\ call = NoCall
    /\ result = <<>>

InitAggregate ==
    /\ AppIdle
    /\ IndexIdle
    /\ sources \in SUBSET LocationSources
    /\ missing \in SUBSET sources
    /\ \E lp \in SeqsUpTo(SourceRecords("pleiades"),
                          IF "pleiades" \in sources \ missing
                          THEN MaxSourceRecords ELSE 0) :
       \E lo \in SeqsUpTo(SourceRecords("orbis"),
                          IF "orbis" \in sources \ missing
                          THEN MaxSourceRecords - Len(lp) ELSE 0) :
       \E lt \in SeqsUpTo(SourceRecords("topostext"),
                          IF "topostext" \in sources \ missing
                          THEN MaxSourceRecords - Len(lp) - Len(lo) ELSE 0) :
           srcOut = [pleiades |-> lp, orbis |-> lo, topostext |-> lt]
    /\ provinces = <<>>
    /\ locations = <<>>
    /\ prevLocations = <<>>
    /\ lastOp = "none"
    /\ junctions = {}

TransformLocations ==
    /\ prevLocations' = Gathered(sources, missing, srcOut)
    /\ locations' = transform_locations(sources, missing, srcOut)
    /\ lastOp' = "transform_locations"
    /\ UNCHANGED <<sources, missing, srcOut, provinces, junctions, indexVars, appVars>>

\* deduplicate_locations applied to the records the sources returned
DeduplicateGathered ==
    /\ prevLocations' = Gathered(sources, missing, srcOut)
    /\ locations' = deduplicate_locations(Gathered(sources, missing, srcOut))
    /\ lastOp' = "deduplicate_locations"
    /\ UNCHANGED <<sources, missing, srcOut, provinces, junctions, indexVars, appVars>>

NextAggregate == TransformLocations \/ DeduplicateGathered

\* The lists deduplicate_locations is applied to: a key may be absent
DedupRecords ==
    [id : {"pleiades_1", "pleiades_2"}, name_modern : {None, "a", "b"},
     province_id : {None, "p1"}]
    \cup [id : {"pleiades_1", "pleiades_2"}, province_id : {None, "p1"}]

InitDedup ==
    /\ AppIdle
    /\ IndexIdle
    /\ sources = {}
    /\ missing = {}
    /\ srcOut = <<>>
    /\ provinces = <<>>
    /\ locations \in SeqsUpTo(DedupRecords, MaxDedupInput)
    /\ prevLocations = <<>>
    /\ lastOp = "none"
    /\ junctions = {}

Deduplicate ==
    /\ prevLocations' = locations
    /\ locations' = deduplicate_locations(locations)
    /\ lastOp' = "deduplicate_locations"
    /\ UNCHANGED <<sources, missing, srcOut, provinces, junctions, indexVars, appVars>>

NextDedup == Deduplicate

----------------------------------------------------------------------------
(* _assign_provinces *)

\* Bounds of the region assignment model
MaxLocations == 2
MaxProvinces == 2

\* The value of a coordinate numeral in half degrees
HalfDegrees ==
    "0.0" :> 0 @@ "2.5" :> 5 @@ "10.0" :> 20 @@ "11.5" :> 23 @@ "12.0" :> 24
    @@ "12.5" :> 25 @@ "40.5" :> 81 @@ "41.0" :> 82 @@ "41.5" :> 83 @@ "80.0" :> 160

\* 100 square degrees (line 112) in square half degrees
AssignThreshold == 100 * 4

\* bool(v) of Python: None, 0.0 and the empty string are false
Truthy(v) == v \notin {None, "0.0", ""}

\* The province records (awmc.py:151-162), with the ids
\* f"awmc_{era_name}_{i}": centroid_lat and centroid_lon are
\* None when the geometry has no point.
ProvinceRecords ==
    {[id |-> "awmc_roman_empire_bce_60_0", centroid_lat |-> "41.5", centroid_lon |-> "12.5"],
     [id |-> "awmc_roman_empire_ce_117_0", centroid_lat |-> "40.5", centroid_lon |-> "11.5"],
     [id |-> "awmc_roman_empire_bce_60_0", centroid_lat |-> "41.5", centroid_lon |-> "0.0"],
     [id |-> "awmc_roman_empire_ce_117_0", centroid_lat |-> None, centroid_lon |-> None]}

\* <<latitude, longitude>> of the location records
LocationPoints == {<<"41.0", "12.0">>, <<"10.0", "80.0">>, <<"41.5", "2.5">>}

\* The location records (pleiades.py:171-189), without or with a province
LocationRecords ==
    {[id |-> "pleiades_1", latitude |-> pt[1], longitude |-> pt[2], province_id |-> prov] :
        pt \in LocationPoints, prov \in {None, "awmc_roman_empire_ce_117_0"}}
    \cup
    {[id |-> "pleiades_2", latitude |-> "41.0", longitude |-> "12.0", province_id |-> None]}

\* (lat - plat) ** 2 + (lon - plon) ** 2, in square half degrees
SquaredDistance(lat, lon, plat, plon) ==
    (HalfDegrees[lat] - HalfDegrees[plat]) * (HalfDegrees[lat] - HalfDegrees[plat])
    + (HalfDegrees[lon] - HalfDegrees[plon]) * (HalfDegrees[lon] - HalfDegrees[plon])

\* Lines 85-92: the provinces whose centroid_lat and centroid_lon are truthy
province_centroids(provs) ==
    LET HasCentroid(prov) ==
            Truthy(Get(prov, "centroid_lat")) /\ Truthy(Get(prov, "centroid_lon"))
    IN SelectSeq(provs, HasCentroid)

RECURSIVE BestFrom_LastWins(_, _, _, _)
\* BestFrom where best_dist is never lowered: the last centroid is taken
BestFrom_LastWins(cents, lat, lon, best) ==
    IF cents = <<>> THEN best
    ELSE LET c == Head(cents)
             dist == SquaredDistance(lat, lon, c.centroid_lat, c.centroid_lon)
         IN BestFrom_LastWins(Tail(cents), lat, lon, [prov |-> c.id, dist |-> dist])

RECURSIVE BestFrom(_, _, _, _)
\* Lines 106-110; best is [prov |-> best_prov, dist |-> best_dist], where
\* dist -1 is float("inf")
BestFrom(cents, lat, lon, best) ==
    IF cents = <<>> THEN best
    ELSE LET c == Head(cents)
             dist == SquaredDistance(lat, lon, c.centroid_lat, c.centroid_lon)
         IN IF best.dist = -1 \/ dist < best.dist
            THEN BestFrom(Tail(cents), lat, lon, [prov |-> c.id, dist |-> dist])
            ELSE BestFrom(Tail(cents), lat, lon, best)

\* AssignOne without the "continue" of line 100
AssignOne_Reassign(loc, cents) ==
    LET best == BestFrom(cents, loc.latitude, loc.longitude,
                         [prov |-> None, dist |-> -1])
    IN IF Truthy(best.prov) /\ best.dist < AssignThreshold
       THEN ("province_id" :> best.prov) @@ loc
       ELSE loc

\* Lines 99-113, the body of the loop over the locations
AssignOne(loc, cents) ==
    IF Truthy(Get(loc, "province_id")) THEN loc
    ELSE LET best == BestFrom(cents, loc.latitude, loc.longitude,
                              [prov |-> None, dist |-> -1])
         IN IF Truthy(best.prov) /\ best.dist < AssignThreshold
            THEN ("province_id" :> best.prov) @@ loc
            ELSE loc

\* _assign_provinces
_assign_provinces(locs, provs) ==
    LET cents == province_centroids(provs)
    IN IF cents = <<>> THEN locs
       ELSE [i \in 1..Len(locs) |-> AssignOne(locs[i], cents)]

InitReconcile ==
    /\ AppIdle
    /\ IndexIdle
    /\ sources = {}
    /\ missing = {}
    /\ srcOut = <<>>
    /\ provinces \in SeqsUpTo(ProvinceRecords, MaxProvinces)
    /\ locations \in SeqsUpTo(LocationRecords, MaxLocations)
    /\ prevLocations = <<>>
    /\ lastOp = "none"
    /\ junctions = {}

AssignProvinces ==
    /\ prevLocations' = locations
    /\ locations' = _assign_provinces(locations, provinces)
    /\ lastOp' = "_assign_provinces"
    /\ UNCHANGED <<sources, missing, srcOut, provinces, junctions, indexVars, appVars>>

NextReconcile == AssignProvinces \/ Deduplicate

----------------------------------------------------------------------------
(* enrich_all *)

\* Bound of the enrichment model: the records the sources return in all
MaxEnrichRecords == 2

\* The junction tables of lines 52-55, written as empty lists
JunctionTables ==
    {"road_cities.json", "people_places.json", "event_locations.json",
     "province_cities.json"}

\* enrich_all without the guards of lines 37 and 44: the locations are
\* handed to a region assignment that gives every record the first province
enrich_locations_Always(locs, provs) ==
    [i \in 1..Len(locs) |->
        IF provs = <<>> THEN locs[i]
        ELSE ("province_id" :> provs[1].id) @@ locs[i]]

\* Lines 34-49, the list processed/locations.json holds after enrich_all:
\* locs is what _load_json returns for it ([] when the file is absent) and
\* provs what it returns for processed/provinces.json.
enrich_locations(locs, provs) ==
    IF locs = <<>> THEN locs
    ELSE IF provs # <<>> THEN _assign_provinces(locs, provs)
         ELSE locs

\* The records the sources hand to transform_locations, with coordinates
EnrichSourceRecords(s) ==
    [id : SourceIds[s], latitude : {"41.0", "10.0"}, longitude : {"12.0"},
     province_id : {None}]

\* The province records of processed/provinces.json in this model: one with
\* a centroid and one without
EnrichProvinceRecords ==
    {prov \in ProvinceRecords :
        prov.centroid_lat \in {None, "41.5"} /\ prov.centroid_lon \in {None, "12.5"}}

\* The state before the transform stage: the sources have their records,
\* processed/provinces.json is as transform_provinces writes it, and
\* processed/locations.json does not exist.
InitEnrich ==
    /\ AppIdle
    /\ IndexIdle
    /\ sources = LocationSources
    /\ missing = {}
    /\ \E lp \in SeqsUpTo(EnrichSourceRecords("pleiades"), MaxEnrichRecords) :
       \E lo \in SeqsUpTo(EnrichSourceRecords("orbis"), MaxEnrichRecords - Len(lp)) :
       \E lt \in SeqsUpTo(EnrichSourceRecords("topostext"),
                          MaxEnrichRecords - Len(lp) - Len(lo)) :
           srcOut = [pleiades |-> lp, orbis |-> lo, topostext |-> lt]
    /\ provinces \in SeqsUpTo(EnrichProvinceRecords, MaxProvinces)
    /\ locations = <<>>
    /\ prevLocations = <<>>
    /\ lastOp = "none"
    /\ junctions = {}

\* enrich_all: the early return of line 39 writes nothing
EnrichAll ==
    /\ prevLocations' = locations
    /\ locations' = enrich_locations(locations, provinces)
    /\ junctions' = IF locations = <<>> THEN junctions ELSE JunctionTables
    /\ lastOp' = "enrich_all"
    /\ UNCHANGED <<sources, missing, srcOut, provinces, indexVars, appVars>>

NextEnrich == TransformLocations \/ EnrichAll \/ AssignProvinces

----------------------------------------------------------------------------
(* Properties of the index *)

\* The places <<cell, i>> of the entities stored in the grid
Places(g) == UNION {{<<c, i>> : i \in 1..Len(g[c])} : c \in DOMAIN g}

At(g, pl) == g[pl[1]][pl[2]]

\* Distance in metres of a stored entity to the point of the last query
DistToQuery(e) == _haversine_distance(call.lat, call.lon, e.lat, e.lon)

\* The stored entities within the radius of the last query
PlacesInRange == {pl \in Places(grid) : DistToQuery(At(grid, pl)) <= call.km * 1000}

MinDist(places) ==
    CHOOSE d \in {DistToQuery(At(grid, pl)) : pl \in places} :
        \A pl \in places : d <= DistToQuery(At(grid, pl))

\* C1: find_within returns exactly the stored entities whose haversine
\* distance to the query point is <= radius_km: none within the radius is
\* missed, none farther away is returned.
C1_FindWithinExact ==
    call.op = "find_within" =>
        /\ Len(result) = Cardinality(PlacesInRange)
        /\ \A pl \in PlacesInRange : \E i \in 1..Len(result) : result[i] = At(grid, pl)
        /\ \A i \in 1..Len(result) : DistToQuery(result[i]) <= call.km * 1000

\* C2: find_nearest returns None when no entity of the whole index is within
\* max_distance_km, and otherwise an entity at the minimum distance over all
\* the entities of the index that are within range.
C2_FindNearestGlobalMin ==
    call.op = "find_nearest" =>
        IF PlacesInRange = {}
        THEN result = <<>>
        ELSE /\ Len(result) = 1
             /\ DistToQuery(result[1]) = MinDist(PlacesInRange)

\* C3 as stated: find_nearest only returns an entity whose distance is
\* strictly less than max_distance_km.
C3_StrictlyWithin ==
    (call.op = "find_nearest" /\ result # <<>>) =>
        DistToQuery(result[1]) < call.km * 1000

\* C3 amended: find_nearest only returns an entity whose distance is less
\* than or equal to max_distance_km, and an entity at exactly that distance
\* is returned: with max_distance_km = 0 and an entity stored at the query
\* coordinates, the result is an entity at distance 0.
C3_WithinInclusive ==
    call.op = "find_nearest" =>
        /\ result # <<>> => DistToQuery(result[1]) <= call.km * 1000
        /\ (call.km = 0 /\ \E pl \in Places(grid) :
                              /\ At(grid, pl).lat = call.lat
                              /\ At(grid, pl).lon = call.lon)
              => (result # <<>> /\ DistToQuery(result[1]) = 0)

\* An entity at exactly max_distance_km has been returned
C3_Witness ==
    /\ call.op = "find_nearest"
    /\ result # <<>>
    /\ DistToQuery(result[1]) = call.km * 1000

\* C4: the key of the cell that holds an entity is
\* (floor(lat / cell_size), floor(lon / cell_size)) for every latitude and
\* longitude, positive or negative.
C4_CellKeyIsFloor ==
    \A pl \in Places(grid) :
        pl[1] = <<FloorDiv(At(grid, pl).lat, cell_size),
                  FloorDiv(At(grid, pl).lon, cell_size)>>

\* C15: an index never has a cell_size <= 0: SpatialIndex(cell_size) fails
\* for such a cell_size, so that add, find_nearest and find_within are
\* never called on an index with a non-positive cell_size.
C15_CellSizePositive == cell_size > 0

InRange(lat, lon) == lat \in -90..90 /\ lon \in -180..180

IsRaised(r) == r # <<>> /\ "error" \in DOMAIN r[1]

\* C16: add, find_nearest and find_within fail at the call when the
\* latitude is outside [-90, 90] or the longitude outside [-180, 180]: no
\* stored entity has such coordinates, and a call with such coordinates
\* raises instead of returning.
C16_OutOfRangeRejected ==
    /\ \A pl \in Places(grid) : InRange(At(grid, pl).lat, At(grid, pl).lon)
    /\ (call.op \in {"add", "find_nearest", "find_within"}
           /\ ~InRange(call.lat, call.lon)) => IsRaised(result)

Candidates ==
    LET center == _get_cell(call.lat, call.lon, cell_size)
        n == cells_to_check(call.km, cell_size)
    IN {pl \in PlacesInRange : /\ Abs(pl[1][1] - center[1]) <= n
                               /\ Abs(pl[1][2] - center[2]) <= n}

\* The place p is met before the place q by the loops of find_nearest:
\* cells by ascending latitude offset, then by ascending longitude offset,
\* and a bucket in insertion order
ScanBefore(p, q) ==
    \/ p[1][1] < q[1][1]
    \/ p[1][1] = q[1][1] /\ p[1][2] < q[1][2]
    \/ p[1] = q[1] /\ p[2] < q[2]

\* C18: among the entities find_nearest visits within range, the one it
\* returns is the first in scan order of those at the least distance: an
\* entity at the same distance met later never takes the place of one met
\* earlier.
C18_FirstTieWins ==
    (call.op = "find_nearest" /\ result # <<>>) =>
        \E pl \in Candidates :
            /\ result[1] = At(grid, pl)
            /\ \A q \in Candidates \ {pl} :
                   \/ DistToQuery(At(grid, q)) > DistToQuery(At(grid, pl))
                   \/ /\ DistToQuery(At(grid, q)) = DistToQuery(At(grid, pl))
                      /\ ScanBefore(pl, q)

\* find_nearest has chosen between two different entities at the same
\* least distance that lie in different cells, and between two in one cell
C18_Witness ==
    /\ call.op = "find_nearest"
    /\ result # <<>>
    /\ \E p, q \in Candidates :
           /\ At(grid, p) # At(grid, q)
           /\ DistToQuery(At(grid, p)) = DistToQuery(result[1])
           /\ DistToQuery(At(grid, q)) = DistToQuery(result[1])
           /\ p[1] # q[1]

\* C19: add appends exactly one entity to the end of the bucket of its
\* cell and leaves every other entity where it was, so the index holds all
\* the entities added; an entity added at some coordinates is returned by
\* a find_within at those coordinates, and entities stored with the same
\* coordinates are returned together.
C19_AddAppends ==
    /\ [][call'.op = "add" =>
             LET cell == _get_cell(call'.lat, call'.lon, cell_size)
                 old == IF cell \in DOMAIN grid THEN grid[cell] ELSE <<>>
             IN /\ DOMAIN grid' = DOMAIN grid \cup {cell}
                /\ \A c \in DOMAIN grid \ {cell} : grid'[c] = grid[c]
                /\ Len(grid'[cell]) = Len(old) + 1
                /\ SubSeq(grid'[cell], 1, Len(old)) = old]_vars
    /\ [][(/\ call.op = "add"
           /\ call'.op = "find_within"
           /\ call'.lat = call.lat
           /\ call'.lon = call.lon) =>
             LET bucket == grid[_get_cell(call.lat, call.lon, cell_size)]
             IN \E i \in 1..Len(result') : result'[i] = bucket[Len(bucket)]]_vars
    /\ [](call.op = "find_within" =>
             \A p, q \in Places(grid) :
                 (At(grid, p).lat = At(grid, q).lat /\ At(grid, p).lon = At(grid, q).lon) =>
                     ((\E i \in 1..Len(result) : result[i] = At(grid, p))
                          <=> (\E i \in 1..Len(result) : result[i] = At(grid, q))))

\* C20: find_nearest and find_within leave the index as it was, no cell
\* and no entity added, removed or changed, and the same query made again
\* with no add in between returns the same entities in the same order.
C20_QueriesReadOnly ==
    [][call'.op \in {"find_nearest", "find_within"} =>
           /\ grid' = grid
           /\ cell_size' = cell_size
           /\ call' = call => result' = result]_vars

\* find_within has returned an entity after looking up the cell of the
\* query point, which is not a cell of the grid
C20_Witness ==
    /\ call.op = "find_within"
    /\ result # <<>>
    /\ _get_cell(call.lat, call.lon, cell_size) \notin DOMAIN grid

\* C30: every stored entity lies in the bucket of its own coordinates,
\* whatever the payload: the lat and lon of the entity an add stores are
\* the lat and lon arguments of that add, and the key of the bucket of an
\* entity is _get_cell of the coordinates it is stored with.
C30_StoredWhereBucketed ==
    /\ [][call'.op = "add" =>
             LET bucket == grid'[_get_cell(call'.lat, call'.lon, cell_size)]
             IN /\ bucket[Len(bucket)].lat = call'.lat
                /\ bucket[Len(bucket)].lon = call'.lon]_vars
    /\ [](\A pl \in Places(grid) :
             pl[1] = _get_cell(At(grid, pl).lat, At(grid, pl).lon, cell_size))

----------------------------------------------------------------------------
(* Properties of deduplicate_locations and transform_locations *)

RecordKeys == {"id", "name_modern", "province_id", "region"}

\* The places in locs of the records with the given id
PlacesOf(locs, id) == {i \in 1..Len(locs) : locs[i].id = id}

\* The first non-null value of the key among the records of locs with the
\* given id, in list order; None when there is none
FirstNonNull(locs, id, key) ==
    LET having == {i \in PlacesOf(locs, id) : Get(locs[i], key) # None}
    IN IF having = {} THEN None
       ELSE locs[CHOOSE i \in having : \A j \in having : i <= j][key]

NoRepeatedId(locs) ==
    \A i, j \in 1..Len(locs) : locs[i].id = locs[j].id => i = j

Range(s) == {s[i] : i \in 1..Len(s)}

\* C7: the records transform_locations writes are the field-by-field merge
\* of the source records in priority order: the aggregated set is
\* deduplicate_locations of the concatenation of the source outputs.
C7_AggregateIsMerge ==
    lastOp = "transform_locations" =>
        Range(locations) = Range(deduplicate_locations(prevLocations))

\* The fields of a record other than id that hold a non-null value
Populated(rec) == {key \in DOMAIN rec \ {"id"} : rec[key] # None}

\* C13: for two records A and B of one id whose populated fields other
\* than id are disjoint, deduplicate_locations([A, B]) and
\* deduplicate_locations([B, A]) each return one record that holds every
\* populated field of A and of B with its value, and the two returned
\* records are equal as mappings from field to value.
C13_DisjointMergeCommutes ==
    (/\ lastOp = "deduplicate_locations"
     /\ Len(prevLocations) = 2
     /\ prevLocations[1].id = prevLocations[2].id
     /\ Populated(prevLocations[1]) \cap Populated(prevLocations[2]) = {}) =>
        LET A == prevLocations[1]
            B == prevLocations[2]
            swapped == deduplicate_locations(<<B, A>>)
        IN /\ Len(locations) = 1
           /\ Len(swapped) = 1
           /\ \A key \in Populated(A) :
                  Get(locations[1], key) = A[key] /\ Get(swapped[1], key) = A[key]
           /\ \A key \in Populated(B) :
                  Get(locations[1], key) = B[key] /\ Get(swapped[1], key) = B[key]
           /\ locations[1] = swapped[1]

\* C14: deduplicate_locations([R, R]) returns the one record R, field for
\* field, and deduplicate_locations applied to a list it has returned
\* returns the same records in the same order.
C14_Idempotent ==
    lastOp = "deduplicate_locations" =>
        /\ (Len(prevLocations) = 2 /\ prevLocations[1] = prevLocations[2]) =>
               locations = <<prevLocations[1]>>
        /\ deduplicate_locations(locations) = locations

\* deduplicate_locations has been applied to a record and itself, the
\* record holding a populated field and a null field
C14_Witness ==
    /\ lastOp = "deduplicate_locations"
    /\ Len(prevLocations) = 2
    /\ prevLocations[1] = prevLocations[2]
    /\ Get(prevLocations[1], "name_modern") = "a"
    /\ prevLocations[1].province_id = None
    /\ Len(locations) = 1

----------------------------------------------------------------------------
(* Properties of _assign_provinces *)

\* The provinces that carry a centroid latitude and a centroid longitude
WithCentroid(provs) ==
    {j \in 1..Len(provs) : /\ Get(provs[j], "centroid_lat") # None
                           /\ Get(provs[j], "centroid_lon") # None}

\* Squared distance of a location record to the centroid of a province
CentroidDistance(loc, prov) ==
    SquaredDistance(loc.latitude, loc.longitude, prov.centroid_lat, prov.centroid_lon)

\* C8: a record without province_id gets the id of a centroid at the
\* minimum squared distance m over all the province centroids when m < 100,
\* and keeps a null province_id when m >= 100.
C8_NearestWithinThreshold ==
    lastOp = "_assign_provinces" =>
        /\ Len(locations) = Len(prevLocations)
        /\ \A i \in 1..Len(prevLocations) :
               prevLocations[i].province_id = None =>
                   LET cents == WithCentroid(provinces)
                       d(j) == CentroidDistance(prevLocations[i], provinces[j])
                   IN IF \E j \in cents : d(j) < AssignThreshold
                      THEN \E j \in cents :
                               /\ \A k \in cents : d(j) <= d(k)
                               /\ locations[i].province_id = provinces[j].id
                      ELSE locations[i].province_id = None

\* C28: every province that carries a centroid latitude and a centroid
\* longitude is a candidate of the minimum, whatever their values, 0
\* included: a record without province_id that lies at a squared distance
\* under 100 from the centroid of some province is given a province.
C28_EveryCentroidIsCandidate ==
    lastOp = "_assign_provinces" =>
        \A i \in 1..Len(prevLocations) : \A j \in WithCentroid(provinces) :
            (/\ prevLocations[i].province_id = None
             /\ CentroidDistance(prevLocations[i], provinces[j]) < AssignThreshold) =>
                locations[i].province_id # None

\* The first record of locs with the given id: the one deduplicate_locations keeps
FirstOf(locs, id) ==
    locs[CHOOSE i \in PlacesOf(locs, id) : \A j \in PlacesOf(locs, id) : i <= j]

\* C9: a record with a non-null province_id keeps it: _assign_provinces
\* leaves the province_id of an assigned record as it was, and the merge of
\* deduplicate_locations leaves the non-null province_id of the record it
\* keeps as it was.
C9_ProvinceIdKept ==
    /\ lastOp = "_assign_provinces" =>
           /\ Len(locations) = Len(prevLocations)
           /\ \A i \in 1..Len(prevLocations) :
                  prevLocations[i].province_id # None =>
                      locations[i].province_id = prevLocations[i].province_id
    /\ lastOp = "deduplicate_locations" =>
           \A id \in IdsOf(prevLocations) :
               FirstOf(prevLocations, id).province_id # None =>
                   /\ PlacesOf(locations, id) # {}
                   /\ \A k \in PlacesOf(locations, id) :
                          locations[k].province_id
                              = FirstOf(prevLocations, id).province_id

\* _assign_provinces has met an assigned record at a place where it gives an
\* unassigned record another province
C9_Witness ==
    /\ lastOp = "_assign_provinces"
    /\ \E i, j \in 1..Len(prevLocations) :
           /\ prevLocations[i].province_id # None
           /\ prevLocations[j].province_id = None
           /\ prevLocations[i].latitude = prevLocations[j].latitude
           /\ prevLocations[i].longitude = prevLocations[j].longitude
           /\ locations[j].province_id # None
           /\ locations[j].province_id # locations[i].province_id

Orderings(n) == {f \in [1..n -> 1..n] : \A i, j \in 1..n : f[i] = f[j] => i = j}

Permuted(s, f) == [i \in 1..Len(s) |-> s[f[i]]]

\* C10 as stated: the province_id given to each record is the same for
\* every ordering of the provinces list and of the locations list, also
\* when centroids lie at the same squared distance from a record.
C10_OrderIndependent ==
    lastOp = "_assign_provinces" =>
        \A f \in Orderings(Len(prevLocations)) :
        \A g \in Orderings(Len(provinces)) :
            LET out == _assign_provinces(Permuted(prevLocations, f),
                                         Permuted(provinces, g))
            IN \A i \in 1..Len(out) :
                   out[i].province_id = locations[f[i]].province_id

\* No two centroids of different provinces lie at the same squared distance
\* from the record
NoTie(loc) ==
    \A j, k \in WithCentroid(provinces) :
        provinces[j].id # provinces[k].id =>
            CentroidDistance(loc, provinces[j]) # CentroidDistance(loc, provinces[k])

\* C10 amended: the province_id given to each record is the same for every
\* ordering of the locations list, and for every ordering of the provinces
\* list when no two centroids of different provinces lie at the same
\* squared distance from the record.
C10_OrderIndependentNoTie ==
    lastOp = "_assign_provinces" =>
        /\ \A f \in Orderings(Len(prevLocations)) :
               _assign_provinces(Permuted(prevLocations, f), provinces)
                   = Permuted(locations, f)
        /\ \A g \in Orderings(Len(provinces)) :
               LET out == _assign_provinces(prevLocations, Permuted(provinces, g))
               IN \A i \in 1..Len(out) :
                      NoTie(prevLocations[i]) =>
                          out[i].province_id = locations[i].province_id

\* A record has been assigned the nearer of two centroids of different
\* provinces, and the provinces list has the farther one first
C10_Witness ==
    /\ lastOp = "_assign_provinces"
    /\ \E i \in 1..Len(prevLocations) : \E j, k \in WithCentroid(provinces) :
           /\ j < k
           /\ prevLocations[i].province_id = None
           /\ provinces[j].id # provinces[k].id
           /\ CentroidDistance(prevLocations[i], provinces[k])
                  < CentroidDistance(prevLocations[i], provinces[j])
           /\ locations[i].province_id = provinces[k].id

----------------------------------------------------------------------------
(* Properties of enrich_all *)

\* C11: when no province carries a centroid (there is no province, or
\* every province lacks centroid_lat or centroid_lon), enrich_all and
\* _assign_provinces leave the location list as it was: the same records
\* with the same fields, province_id included, in the same order.
C11_NoCentroidNoOp ==
    (lastOp \in {"enrich_all", "_assign_provinces"} /\ WithCentroid(provinces) = {}) =>
        locations = prevLocations

\* enrich_all has processed a location near the coordinates the model
\* gives to centroids, with provinces that all lack a centroid
C11_Witness ==
    /\ lastOp = "enrich_all"
    /\ provinces # <<>>
    /\ WithCentroid(provinces) = {}
    /\ \E i \in 1..Len(locations) : locations[i].latitude = "41.0"
    /\ junctions = JunctionTables

Ascending(locs) ==
    \A i \in 1..(Len(locs) - 1) : IdRank(locs[i].id) <= IdRank(locs[i + 1].id)

IdList(locs) == [i \in 1..Len(locs) |-> locs[i].id]

\* C12: the list transform_locations writes is in ascending order of id
\* whatever the sources return, and the list enrich_all writes back after
\* the region assignment is still in ascending order of id, with the same
\* ids at the same places.
C12_SortedById ==
    /\ lastOp = "transform_locations" => Ascending(locations)
    /\ lastOp \in {"enrich_all", "_assign_provinces"} =>
           /\ Ascending(locations)
           /\ IdList(locations) = IdList(prevLocations)

\* enrich_all has assigned a province in a list of two records that the
\* sources had returned in descending order of id
C12_Witness ==
    /\ lastOp = "enrich_all"
    /\ Len(locations) = 2
    /\ ~Ascending(Gathered(sources, missing, srcOut))
    /\ \E i \in 1..Len(locations) : locations[i].province_id # prevLocations[i].province_id

----------------------------------------------------------------------------
(* Config (config.py).  A string is the sequence of its characters, a run  *)
(* of letters that holds no separator being written as one character; a    *)
(* path is what pathlib keeps of a string, its root and its segments; None *)
(* for a tuple or a set is the empty tuple, a set that is given being      *)
(* wrapped in a tuple of one element.                                      *)

\* ALL_SOURCES
ALL_SOURCES == {"pleiades", "awmc", "itinere", "wikidata", "orbis", "topostext"}

\* Longest path string given to with_output
MaxPathLen == 3

\* The characters of the path strings
PathChars == {"/", ".", "a"}

\* The strings of at most n characters
RECURSIVE StringsUpTo(_)
StringsUpTo(n) ==
    IF n = 0 THEN {<<>>}
    ELSE LET shorter == StringsUpTo(n - 1)
         IN shorter \cup {Append(s, c) : s \in {t \in shorter : Len(t) = n - 1}, c \in PathChars}

\* The arguments of with_output
PathStrings == StringsUpTo(MaxPathLen)

\* str.split(sep): the pieces of s between the separators, cur being the
\* piece that is open
RECURSIVE SplitOn(_, _, _)
SplitOn(s, sep, cur) ==
    IF s = <<>> THEN <<cur>>
    ELSE IF Head(s) = sep THEN <<cur>> \o SplitOn(Tail(s), sep, <<>>)
    ELSE SplitOn(Tail(s), sep, Append(cur, Head(s)))

\* Number of "/" at the start of s
RECURSIVE LeadingSlashes(_)
LeadingSlashes(s) ==
    IF s = <<>> \/ Head(s) # "/" THEN 0 ELSE 1 + LeadingSlashes(Tail(s))

\* Path(s): the root is "//" for exactly two leading slashes and "/" for any
\* other number of them; the empty segments and the segments "." are dropped
Path(s) ==
    [kind |-> "Path",
     root |-> IF LeadingSlashes(s) = 0 THEN ""
              ELSE IF LeadingSlashes(s) = 2 THEN "//" ELSE "/",
     parts |-> SelectSeq(SplitOn(s, "/", <<>>), LAMBDA seg : seg \notin {<<>>, <<".">>})]

\* A str argument
Str(s) == [kind |-> "str", chars |-> s]

\* path.parent: the path without its last segment, the path itself when it
\* has no segment
PathParent(path) ==
    IF path.parts = <<>> THEN path
    ELSE [path EXCEPT !.parts = SubSeq(path.parts, 1, Len(path.parts) - 1)]

\* path.name: the last segment, the empty string when there is none
PathName(path) ==
    IF path.parts = <<>> THEN <<>> ELSE path.parts[Len(path.parts)]

\* path / s: s is parsed as a path, which replaces path when it has a root
\* and whose segments are appended otherwise
PathJoin(path, s) ==
    IF Path(s).root # "" THEN Path(s)
    ELSE [path EXCEPT !.parts = path.parts \o Path(s).parts]

\* Config.output_path
output_path(self) == PathJoin(self.output_dir, self.output_name)

\* frozenset(x) of a list, a tuple, a set or a frozenset
frozenset(x) ==
    [kind |-> "frozenset",
     items |-> IF x.kind \in {"list", "tuple"} THEN Range(x.items) ELSE x.items]

\* The defaults of the fields of Config; request_delay is in seconds
Defaults ==
    [output_dir |-> Path(<<".", "/", "output">>),
     output_name |-> <<"roma_aeterna.sqlite">>,
     sources |-> [kind |-> "frozenset", items |-> ALL_SOURCES],
     time_range |-> <<>>,
     bbox |-> <<>>,
     location_types |-> <<>>,
     include_images |-> FALSE,
     max_images |-> 100,
     request_delay |-> 1,
     cache_downloads |-> TRUE,
     export_geojson |-> FALSE,
     export_csv |-> FALSE,
     validate_output |-> TRUE,
     verbose |-> FALSE]

\* Config.__post_init__ without the test of the sources
__post_init___NoSourceCheck(self) ==
    LET as_frozenset == IF self.sources.kind \in {"list", "tuple", "set"}
                   THEN frozenset(self.sources) ELSE self.sources
        location_types ==
            IF self.location_types # <<>> /\ self.location_types[1].kind # "frozenset"
            THEN <<frozenset(self.location_types[1])>> ELSE self.location_types
        output_dir == IF self.output_dir.kind = "str"
                      THEN Path(self.output_dir.chars) ELSE self.output_dir
    IN IF self.time_range # <<>> /\ self.time_range[1] > self.time_range[2]
       THEN Raised("ValueError")
       ELSE IF self.bbox # <<>> /\ self.bbox[1] > self.bbox[3] THEN Raised("ValueError")
       ELSE IF self.bbox # <<>> /\ self.bbox[2] > self.bbox[4] THEN Raised("ValueError")
       ELSE <<[self EXCEPT !.sources = as_frozenset,
                           !.location_types = location_types,
                           !.output_dir = output_dir]>>

\* Config.__post_init__ where a time range of one year is refused too
__post_init___StrictRange(self) ==
    LET as_frozenset == IF self.sources.kind \in {"list", "tuple", "set"}
                   THEN frozenset(self.sources) ELSE self.sources
        invalid == as_frozenset.items \ ALL_SOURCES
        location_types ==
            IF self.location_types # <<>> /\ self.location_types[1].kind # "frozenset"
            THEN <<frozenset(self.location_types[1])>> ELSE self.location_types
        output_dir == IF self.output_dir.kind = "str"
                      THEN Path(self.output_dir.chars) ELSE self.output_dir
    IN IF invalid # {} THEN Raised("ValueError")
       ELSE IF self.time_range # <<>> /\ self.time_range[1] >= self.time_range[2]
       THEN Raised("ValueError")
       ELSE IF self.bbox # <<>> /\ self.bbox[1] > self.bbox[3] THEN Raised("ValueError")
       ELSE IF self.bbox # <<>> /\ self.bbox[2] > self.bbox[4] THEN Raised("ValueError")
       ELSE <<[self EXCEPT !.sources = as_frozenset,
                           !.location_types = location_types,
                           !.output_dir = output_dir]>>

\* Config.__post_init__: the configuration as a tuple of one record, or
\* the error raised
__post_init__(self) ==
    LET as_frozenset == IF self.sources.kind \in {"list", "tuple", "set"}
                   THEN frozenset(self.sources) ELSE self.sources
        invalid == as_frozenset.items \ ALL_SOURCES
        location_types ==
            IF self.location_types # <<>> /\ self.location_types[1].kind # "frozenset"
            THEN <<frozenset(self.location_types[1])>> ELSE self.location_types
        output_dir == IF self.output_dir.kind = "str"
                      THEN Path(self.output_dir.chars) ELSE self.output_dir
    IN IF invalid # {} THEN Raised("ValueError")
       ELSE IF self.time_range # <<>> /\ self.time_range[1] > self.time_range[2]
       THEN Raised("ValueError")
       ELSE IF self.bbox # <<>> /\ self.bbox[1] > self.bbox[3] THEN Raised("ValueError")
       ELSE IF self.bbox # <<>> /\ self.bbox[2] > self.bbox[4] THEN Raised("ValueError")
       ELSE <<[self EXCEPT !.sources = as_frozenset,
                           !.location_types = location_types,
                           !.output_dir = output_dir]>>

\* Config(**kwargs): the fields that are not given take their defaults
Config(kwargs) ==
    __post_init__([k \in DOMAIN Defaults |->
                      IF k \in DOMAIN kwargs THEN kwargs[k] ELSE Defaults[k]])

\* kwargs[key] = value
SetItem(kwargs, key, value) ==
    [k \in DOMAIN kwargs \cup {key} |-> IF k = key THEN value ELSE kwargs[k]]

\* os.environ.get(key) is true: the variable is set and is not empty
EnvSet(env, key) == env[key] # <<>> /\ env[key][1] # <<>>

\* str.strip() for the blank " "
RECURSIVE Strip(_)
Strip(s) ==
    IF s # <<>> /\ Head(s) = " " THEN Strip(Tail(s))
    ELSE IF s # <<>> /\ s[Len(s)] = " " THEN Strip(SubSeq(s, 1, Len(s) - 1))
    ELSE s

\* The name that a piece of ROMA_SOURCES spells: the pieces of the model
\* hold at most one run of letters
Word(s) == IF s = <<>> THEN "" ELSE s[1]

\* The value of a decimal digit, -1 for any other character
DigitValue(c) ==
    CASE c = "0" -> 0 [] c = "1" -> 1 [] c = "2" -> 2 [] c = "3" -> 3 [] c = "4" -> 4
      [] c = "5" -> 5 [] c = "6" -> 6 [] c = "7" -> 7 [] c = "8" -> 8 [] c = "9" -> 9
      [] OTHER -> -1

\* All the characters of s are decimal digits
AllDigits(s) == \A i \in 1..Len(s) : DigitValue(s[i]) >= 0

\* The number that the digits of s write
RECURSIVE DigitsValue(_)
DigitsValue(s) ==
    IF s = <<>> THEN 0
    ELSE 10 * DigitsValue(SubSeq(s, 1, Len(s) - 1)) + DigitValue(s[Len(s)])

\* int(s) can be computed: s is a numeral with an optional sign
IsNumeral(s) ==
    /\ s # <<>>
    /\ IF Head(s) = "-" THEN Tail(s) # <<>> /\ AllDigits(Tail(s)) ELSE AllDigits(s)

\* int(s) of a numeral
int(s) == IF Head(s) = "-" THEN 0 - DigitsValue(Tail(s)) ELSE DigitsValue(s)

\* str.lower() for the letters of the model
lower(s) ==
    [i \in 1..Len(s) |->
        CASE s[i] = "Y" -> "y" [] s[i] = "E" -> "e" [] s[i] = "S" -> "s" [] OTHER -> s[i]]

\* Config.from_env
from_env(env) ==
    LET k0 == <<>>
        k1 == IF EnvSet(env, "ROMA_OUTPUT_DIR")
              THEN SetItem(k0, "output_dir", Path(env["ROMA_OUTPUT_DIR"][1])) ELSE k0
        k2 == IF EnvSet(env, "ROMA_OUTPUT_NAME")
              THEN SetItem(k1, "output_name", env["ROMA_OUTPUT_NAME"][1]) ELSE k1
        pieces == SplitOn(env["ROMA_SOURCES"][1], ",", <<>>)
        k3 == IF EnvSet(env, "ROMA_SOURCES")
              THEN SetItem(k2, "sources",
                           [kind |-> "frozenset",
                            items |-> {Word(Strip(pieces[i])) : i \in 1..Len(pieces)}])
              ELSE k2
        timed == EnvSet(env, "ROMA_TIME_START") /\ EnvSet(env, "ROMA_TIME_END")
        k4 == IF timed
              THEN SetItem(k3, "time_range",
                           <<int(env["ROMA_TIME_START"][1]), int(env["ROMA_TIME_END"][1])>>)
              ELSE k3
        k5 == IF EnvSet(env, "ROMA_VERBOSE")
              THEN SetItem(k4, "verbose",
                           lower(env["ROMA_VERBOSE"][1]) \in {<<"1">>, <<"t", "r", "u", "e">>, <<"y", "e", "s">>})
              ELSE k4
    IN IF timed /\ ~(IsNumeral(env["ROMA_TIME_START"][1]) /\ IsNumeral(env["ROMA_TIME_END"][1]))
       THEN Raised("ValueError")
       ELSE Config(k5)

\* Config.with_sources where the new configuration is not given verbose
with_sources_DropsVerbose(self, srcs) ==
    Config([output_dir |-> self.output_dir,
            output_name |-> self.output_name,
            sources |-> frozenset(srcs),
            time_range |-> self.time_range,
            bbox |-> self.bbox,
            location_types |-> self.location_types,
            include_images |-> self.include_images,
            max_images |-> self.max_images,
            request_delay |-> self.request_delay,
            cache_downloads |-> self.cache_downloads,
            export_geojson |-> self.export_geojson,
            export_csv |-> self.export_csv,
            validate_output |-> self.validate_output])

\* Config.with_sources
with_sources(self, srcs) ==
    Config([output_dir |-> self.output_dir,
            output_name |-> self.output_name,
            sources |-> frozenset(srcs),
            time_range |-> self.time_range,
            bbox |-> self.bbox,
            location_types |-> self.location_types,
            include_images |-> self.include_images,
            max_images |-> self.max_images,
            request_delay |-> self.request_delay,
            cache_downloads |-> self.cache_downloads,
            export_geojson |-> self.export_geojson,
            export_csv |-> self.export_csv,
            validate_output |-> self.validate_output,
            verbose |-> self.verbose])

\* Config.with_output where output_dir is the path itself
with_output_WholePath(self, path_arg) ==
    LET path == Path(path_arg)
    IN Config([output_dir |-> path,
               output_name |-> PathName(path),
               sources |-> self.sources,
               time_range |-> self.time_range,
               bbox |-> self.bbox,
               location_types |-> self.location_types,
               include_images |-> self.include_images,
               max_images |-> self.max_images,
               request_delay |-> self.request_delay,
               cache_downloads |-> self.cache_downloads,
               export_geojson |-> self.export_geojson,
               export_csv |-> self.export_csv,
               validate_output |-> self.validate_output,
               verbose |-> self.verbose])

\* Config.with_output
with_output(self, path_arg) ==
    LET path == Path(path_arg)
    IN Config([output_dir |-> PathParent(path),
               output_name |-> PathName(path),
               sources |-> self.sources,
               time_range |-> self.time_range,
               bbox |-> self.bbox,
               location_types |-> self.location_types,
               include_images |-> self.include_images,
               max_images |-> self.max_images,
               request_delay |-> self.request_delay,
               cache_downloads |-> self.cache_downloads,
               export_geojson |-> self.export_geojson,
               export_csv |-> self.export_csv,
               validate_output |-> self.validate_output,
               verbose |-> self.verbose])

\* The sources given to Config and to with_sources
SourceArguments ==
    {[kind |-> "list", items |-> <<"pleiades">>],
     [kind |-> "list", items |-> <<"pleiades", "orbis", "pleiades">>],
     [kind |-> "list", items |-> <<"pleiades", "bogus">>],
     [kind |-> "list", items |-> <<>>]}

\* The time ranges given to Config
TimeRanges == {<<>>, <<-200, 200>>, <<200, -200>>, <<14, 14>>}

\* The bounding boxes given to Config
BBoxes == {<<>>, <<-10, 30, 40, 50>>, <<40, 30, -10, 50>>, <<-10, 50, 40, 30>>}

\* Every field that is not sources, time_range or bbox, with a value that
\* is not its default
CustomArguments ==
    [output_dir |-> Str(<<"/", "a">>),
     output_name |-> <<"a">>,
     location_types |-> <<[kind |-> "list", items |-> <<"city", "city">>]>>,
     include_images |-> TRUE,
     max_images |-> 5,
     request_delay |-> 2,
     cache_downloads |-> FALSE,
     export_geojson |-> TRUE,
     export_csv |-> TRUE,
     validate_output |-> FALSE,
     verbose |-> TRUE]

\* The keyword arguments of the calls of Config: sources, a time range and
\* a bounding box, alone or with every other field
ConfigArguments ==
    {SetItem(SetItem(SetItem(<<>>, "sources", s), "time_range", t), "bbox", b) :
        s \in SourceArguments, t \in TimeRanges, b \in BBoxes}
    \cup
    {SetItem(SetItem(SetItem(CustomArguments, "sources", s), "time_range", t), "bbox", b) :
        s \in SourceArguments, t \in {<<>>, <<-200, 200>>}, b \in {<<>>, <<-10, 30, 40, 50>>}}

\* The environments of from_env: a variable is not set (the empty tuple) or
\* set to a string.  Either the sources and the years vary, or the output
\* and the verbosity.
Environments ==
    [ROMA_OUTPUT_DIR : {<<>>},
     ROMA_OUTPUT_NAME : {<<>>},
     ROMA_SOURCES : {<<>>, <<<<>>>>, <<<<"pleiades", ",", " ", "awmc">>>>,
                     <<<<"pleiades", ",">>>>, <<<<"bogus">>>>},
     ROMA_TIME_START : {<<>>, <<<<"-", "2", "0", "0">>>>, <<<<"2", "0", "0">>>>, <<<<"a">>>>},
     ROMA_TIME_END : {<<>>, <<<<"1", "4">>>>},
     ROMA_VERBOSE : {<<>>}]
    \cup
    [ROMA_OUTPUT_DIR : {<<>>, <<<<"/", "a">>>>},
     ROMA_OUTPUT_NAME : {<<>>, <<<<"a">>>>},
     ROMA_SOURCES : {<<>>},
     ROMA_TIME_START : {<<>>},
     ROMA_TIME_END : {<<>>},
     ROMA_VERBOSE : {<<>>, <<<<"1">>>>, <<<<"Y", "E", "S">>>>, <<<<"n", "o">>>>}]

\* made is a configuration, not an error
IsConfig(m) == m # <<>> /\ "error" \notin DOMAIN m[1]

InitConfig ==
    /\ IndexIdle
    /\ LocIdle
    /\ AppIdle

\* config = Config(**kwargs)
NewConfig ==
    \E kwargs \in ConfigArguments :
        /\ made' = Config(kwargs)
        /\ config' = IF IsConfig(Config(kwargs)) THEN Config(kwargs) ELSE config
        /\ cfgCall' = [op |-> "Config", kwargs |-> kwargs]
        /\ UNCHANGED <<indexVars, locVars, dbVars, runVars>>

\* config = Config.from_env()
FromEnv ==
    \E env \in Environments :
        /\ made' = from_env(env)
        /\ config' = IF IsConfig(from_env(env)) THEN from_env(env) ELSE config
        /\ cfgCall' = [op |-> "from_env", env |-> env]
        /\ UNCHANGED <<indexVars, locVars, dbVars, runVars>>

\* config.with_sources(sources)
WithSources ==
    /\ config # <<>>
    /\ \E srcs \in SourceArguments :
           /\ made' = with_sources(config[1], srcs)
           /\ cfgCall' = [op |-> "with_sources", self |-> config[1], sources |-> srcs]
    /\ UNCHANGED <<config, indexVars, locVars, dbVars, runVars>>

\* config.with_output(output_path)
WithOutput ==
    /\ config # <<>>
    /\ \E path \in PathStrings :
           /\ made' = with_output(config[1], path)
           /\ cfgCall' = [op |-> "with_output", self |-> config[1], output_path |-> path]
    /\ UNCHANGED <<config, indexVars, locVars, dbVars, runVars>>

NextConfig == NewConfig \/ FromEnv \/ WithSources \/ WithOutput

----------------------------------------------------------------------------
(* Properties of Config *)

\* The sources of a configuration are a frozenset inside ALL_SOURCES
ValidSources(m) ==
    /\ m[1].sources.kind = "frozenset"
    /\ m[1].sources.items \subseteq ALL_SOURCES

\* The fields of Config other than those of the set given
OtherFields(changed) == DOMAIN Defaults \ changed

\* C21: a Config whose sources hold a name outside ALL_SOURCES is refused
\* with ValueError, so the sources of every configuration that Config,
\* with_sources, with_output or from_env returns are a subset of
\* ALL_SOURCES.
C21_SourcesValid ==
    /\ IsConfig(made) => ValidSources(made)
    /\ IsConfig(config) => ValidSources(config)
    /\ (/\ cfgCall.op = "Config"
        /\ ~(Range(cfgCall.kwargs.sources.items) \subseteq ALL_SOURCES)) =>
           made = Raised("ValueError")
    /\ (/\ cfgCall.op = "with_sources"
        /\ ~(Range(cfgCall.sources.items) \subseteq ALL_SOURCES)) =>
           made = Raised("ValueError")

\* Config has refused a list of sources with a name outside ALL_SOURCES,
\* the time range and the bounding box being valid
C21_Witness ==
    /\ cfgCall.op = "Config"
    /\ "bogus" \in Range(cfgCall.kwargs.sources.items)
    /\ cfgCall.kwargs.time_range = <<-200, 200>>
    /\ cfgCall.kwargs.bbox = <<>>
    /\ made = Raised("ValueError")

\* C22: Config refuses with ValueError a time range whose start is greater
\* than its end; a time range with start <= end is accepted, the other
\* arguments being valid, and stored as it was given.
C22_TimeRange ==
    /\ (cfgCall.op = "Config" /\ cfgCall.kwargs.time_range # <<>>) =>
           LET start == cfgCall.kwargs.time_range[1]
               end == cfgCall.kwargs.time_range[2]
               bbox == cfgCall.kwargs.bbox
           IN IF start > end THEN made = Raised("ValueError")
              ELSE /\ IsConfig(made) => made[1].time_range = <<start, end>>
                   /\ (/\ Range(cfgCall.kwargs.sources.items) \subseteq ALL_SOURCES
                       /\ (bbox = <<>> \/ (bbox[1] <= bbox[3] /\ bbox[2] <= bbox[4]))) =>
                          IsConfig(made)
    /\ (IsConfig(made) /\ made[1].time_range # <<>>) =>
           made[1].time_range[1] <= made[1].time_range[2]

\* Config has accepted and stored a time range of a single year
C22_Witness ==
    /\ cfgCall.op = "Config"
    /\ cfgCall.kwargs.time_range = <<14, 14>>
    /\ IsConfig(made)
    /\ made[1].time_range = <<14, 14>>

\* C23: with_sources(s) returns a configuration whose sources are the set
\* of s and whose every other field equals that of the original, and the
\* original configuration is the same after the call.
C23_WithSources ==
    cfgCall.op = "with_sources" =>
        /\ config = <<cfgCall.self>>
        /\ Range(cfgCall.sources.items) \subseteq ALL_SOURCES => IsConfig(made)
        /\ IsConfig(made) =>
               /\ made[1].sources = [kind |-> "frozenset", items |-> Range(cfgCall.sources.items)]
               /\ \A k \in OtherFields({"sources"}) : made[1][k] = cfgCall.self[k]

\* with_sources has returned a configuration with other sources from a
\* configuration none of whose fields has its default
C23_Witness ==
    /\ cfgCall.op = "with_sources"
    /\ IsConfig(made)
    /\ made[1].sources # cfgCall.self.sources
    /\ \A k \in DOMAIN CustomArguments : cfgCall.self[k] # Defaults[k]

\* C24: with_output(p) returns a configuration whose output_dir is the
\* parent of the path p and whose output_name is its file name, so that
\* its output_path is the path p again, every other field being that of
\* the original.
C24_WithOutput ==
    cfgCall.op = "with_output" =>
        /\ IsConfig(made)
        /\ made[1].output_dir = PathParent(Path(cfgCall.output_path))
        /\ made[1].output_name = PathName(Path(cfgCall.output_path))
        /\ output_path(made[1]) = Path(cfgCall.output_path)
        /\ \A k \in OtherFields({"output_dir", "output_name"}) : made[1][k] = cfgCall.self[k]

\* with_output has been given a path of two segments, on a configuration
\* written with other values than the defaults
C24_Witness ==
    /\ cfgCall.op = "with_output"
    /\ Len(Path(cfgCall.output_path).parts) = 2
    /\ IsConfig(made)
    /\ made[1].output_dir # Path(cfgCall.output_path)
    /\ cfgCall.self.verbose
    /\ cfgCall.self.time_range # <<>>

----------------------------------------------------------------------------
(* validate_database (validation/checks.py) and export_geojson             *)
(* (export/geojson.py).  dbFile tells what is at the path of the database: *)
(* nothing, a database, or something that sqlite3 cannot open, such as a   *)
(* directory.  What a validation check finds is an input of the call.      *)

\* Largest number of features that a table gives
MaxFeatures == 1

\* The checks of validate_database, in the order of the list of the code
CheckNames ==
    <<"table_counts", "coordinate_validity", "required_fields",
      "fts_indexes", "data_ranges", "foreign_keys">>

\* What the checks do on a database: each one returns passed = True,
\* returns passed = False, or raises; _check_data_ranges and
\* _check_foreign_keys never set passed to False
CheckOutcomes ==
    {o \in [Range(CheckNames) -> {"passed", "failed", "raised"}] :
        o["data_ranges"] # "failed" /\ o["foreign_keys"] # "failed"}

\* The loop over the checks where a check that raises ends the loop
RECURSIVE RunChecks_StopsAtRaise(_, _, _)
RunChecks_StopsAtRaise(results, outcomes, i) ==
    IF i > Len(CheckNames) THEN results
    ELSE LET check_name == CheckNames[i]
             passed == outcomes[check_name] = "passed"
             recorded == [results EXCEPT
                             !.checks = SetItem(@, check_name, [passed |-> passed]),
                             !.overall_passed = IF passed THEN @ ELSE FALSE,
                             !.errors = IF passed THEN @ ELSE Append(@, check_name)]
         IN IF outcomes[check_name] = "raised" THEN recorded
            ELSE RunChecks_StopsAtRaise(recorded, outcomes, i + 1)

\* The loop over the checks, from the i-th one: the result of each check
\* is recorded under its name, a check that raises as a check that failed
RECURSIVE RunChecks(_, _, _)
RunChecks(results, outcomes, i) ==
    IF i > Len(CheckNames) THEN results
    ELSE LET check_name == CheckNames[i]
             passed == outcomes[check_name] = "passed"
             recorded == [results EXCEPT
                             !.checks = SetItem(@, check_name, [passed |-> passed]),
                             !.overall_passed = IF passed THEN @ ELSE FALSE,
                             !.errors = IF passed THEN @ ELSE Append(@, check_name)]
         IN RunChecks(recorded, outcomes, i + 1)

\* validate_database without the test of database.exists()
validate_database_NoExistsTest(file, outcomes) ==
    IF file = "unopenable"
    THEN [overall_passed |-> FALSE, checks |-> <<>>, warnings |-> <<>>, errors |-> <<>>,
          error |-> "Database error"]
    ELSE RunChecks([overall_passed |-> TRUE, checks |-> <<>>, warnings |-> <<>>,
                    errors |-> <<>>], outcomes, 1)

\* validate_database
validate_database(file, outcomes) ==
    IF file = "absent"
    THEN [overall_passed |-> FALSE, error |-> "Database not found"]
    ELSE IF file = "unopenable"
    THEN [overall_passed |-> FALSE, checks |-> <<>>, warnings |-> <<>>, errors |-> <<>>,
          error |-> "Database error"]
    ELSE RunChecks([overall_passed |-> TRUE, checks |-> <<>>, warnings |-> <<>>,
                    errors |-> <<>>], outcomes, 1)

\* The keys of the exporters of export_geojson
ExportTables == {"locations", "provinces", "roads", "people", "events"}

\* The table names given to export_geojson
TableArguments == ExportTables \cup {"timeline_markers", ""}

\* The path given as output
OutputPath == [dir |-> "geojson", name |-> "locations"]

\* The databases: for each table, whether the query of its exporter can be
\* run and the features it gives
Databases ==
    {[t \in ExportTables |-> [ok |-> t \notin broken, features |-> [i \in 1..n |-> i]]] :
        n \in 0..MaxFeatures, broken \in {{}, {"roads"}}}

\* The files without the one at the path, and the file written there
WriteFile(files, path, content) ==
    {f \in files : f.path # path} \cup {[path |-> path, content |-> content]}

\* export_geojson where the table name is tested before the database
export_geojson_TableFirst(file, content, table, output, files) ==
    IF table \notin ExportTables
    THEN [result |-> [error |-> "ValueError"], files |-> files]
    ELSE IF file = "absent"
    THEN [result |-> [error |-> "FileNotFoundError"], files |-> files]
    ELSE IF file = "unopenable"
    THEN [result |-> [error |-> "OperationalError"], files |-> files]
    ELSE IF ~content[table].ok
    THEN [result |-> [error |-> "OperationalError"], files |-> files]
    ELSE [result |-> [returned |-> Len(content[table].features)],
          files |-> WriteFile(files, output,
                              [table |-> table, features |-> content[table].features])]

\* export_geojson: what the call returns or raises, and the files after it
export_geojson(file, content, table, output, files) ==
    IF file = "absent"
    THEN [result |-> [error |-> "FileNotFoundError"], files |-> files]
    ELSE IF file = "unopenable"
    THEN [result |-> [error |-> "OperationalError"], files |-> files]
    ELSE IF table \notin ExportTables
    THEN [result |-> [error |-> "ValueError"], files |-> files]
    ELSE IF ~content[table].ok
    THEN [result |-> [error |-> "OperationalError"], files |-> files]
    ELSE [result |-> [returned |-> Len(content[table].features)],
          files |-> WriteFile(files, output,
                              [table |-> table, features |-> content[table].features])]

InitDatabase ==
    /\ IndexIdle
    /\ LocIdle
    /\ AppIdle

\* A database is written at the path
BuildDatabase ==
    /\ dbFile # "unopenable"
    /\ \E content \in Databases :
           /\ dbFile' = "database"
           /\ dbContent' = content
    /\ UNCHANGED <<outputs, report, indexVars, locVars, cfgVars, runVars>>

\* The database is removed
RemoveDatabase ==
    /\ dbFile # "absent"
    /\ dbFile' = "absent"
    /\ dbContent' = <<>>
    /\ UNCHANGED <<outputs, report, indexVars, locVars, cfgVars, runVars>>

\* Something that sqlite3 cannot open is put at the path
BlockDatabase ==
    /\ dbFile = "absent"
    /\ dbFile' = "unopenable"
    /\ UNCHANGED <<dbContent, outputs, report, indexVars, locVars, cfgVars, runVars>>

\* validate_database(database)
ValidateDatabase ==
    \E outcomes \in CheckOutcomes :
        /\ report' = [op |-> "validate_database",
                      database |-> dbFile,
                      outcomes |-> outcomes,
                      result |-> validate_database(dbFile, outcomes)]
        /\ UNCHANGED <<dbFile, dbContent, outputs, indexVars, locVars, cfgVars, runVars>>

\* export_geojson(database, table, output)
ExportGeojson ==
    \E table \in TableArguments :
        LET done == export_geojson(dbFile, dbContent, table, OutputPath, outputs)
        IN /\ report' = [op |-> "export_geojson",
                         database |-> dbFile,
                         table |-> table,
                         output |-> OutputPath,
                         result |-> done.result]
           /\ outputs' = done.files
           /\ UNCHANGED <<dbFile, dbContent, indexVars, locVars, cfgVars, runVars>>

NextValidate == BuildDatabase \/ RemoveDatabase \/ BlockDatabase \/ ValidateDatabase

NextExport == BuildDatabase \/ RemoveDatabase \/ BlockDatabase \/ ExportGeojson

----------------------------------------------------------------------------
(* Properties of validate_database and export_geojson *)

\* C25: validate_database on a path where there is no file returns a
\* result with overall_passed = False and an 'error' entry, runs no check,
\* and leaves the path without a file.
C25_MissingDatabase ==
    /\ [](report.op = "validate_database" /\ report.database = "absent" =>
             /\ report.result.overall_passed = FALSE
             /\ "error" \in DOMAIN report.result
             /\ "checks" \notin DOMAIN report.result)
    /\ [][(dbFile = "absent" /\ report' # report) => dbFile' = "absent"]_vars

\* validate_database has been called where there is no file
C25_Witness ==
    /\ report.op = "validate_database"
    /\ report.database = "absent"
    /\ dbFile = "absent"
    /\ \E c \in DOMAIN report.outcomes : report.outcomes[c] # "passed"

----------------------------------------------------------------------------
(* Pipeline.run (pipeline.py).  pc is the place run has reached: the stage *)
(* it is about to call, "returned" or "raised"; trace lists the stages     *)
(* that were called, each with its outcome.  A stage is one call: it       *)
(* returns or raises.                                                      *)

\* Most records that the pleiades source, and the provinces file, hold
\* when the pipeline runs
MaxPipelineRecords == 1

\* The configurations of the pipelines: the three switches of the optional
\* stages
PipelineConfigs ==
    {Config([validate_output |-> v, export_geojson |-> g, export_csv |-> c])[1] :
        v \in BOOLEAN, g \in BOOLEAN, c \in BOOLEAN}

\* What a stage can do
StageOutcomes == {"returned", "raised"}

\* The place of run after a stage where the validation does not depend on
\* validate_output
StageAfter_AlwaysValidates(stage, cfg) ==
    CASE stage = "download" -> "transform"
      [] stage = "transform" -> "enrich"
      [] stage = "enrich" -> "build"
      [] stage = "build" -> "validate"
      [] stage = "validate" ->
           IF cfg.export_geojson \/ cfg.export_csv THEN "export" ELSE "returned"
      [] stage = "export" -> "returned"

\* The place of run after a stage that has returned
StageAfter(stage, cfg) ==
    CASE stage = "download" -> "transform"
      [] stage = "transform" -> "enrich"
      [] stage = "enrich" -> "build"
      [] stage = "build" ->
           IF cfg.validate_output THEN "validate"
           ELSE IF cfg.export_geojson \/ cfg.export_csv THEN "export" ELSE "returned"
      [] stage = "validate" ->
           IF cfg.export_geojson \/ cfg.export_csv THEN "export" ELSE "returned"
      [] stage = "export" -> "returned"

\* The stage is called and has the outcome given
Called(stage, outcome) ==
    /\ pc = stage
    /\ trace' = Append(trace, [stage |-> stage, outcome |-> outcome])
    /\ pc' = IF outcome = "raised" THEN "raised" ELSE StageAfter(stage, config[1])

\* The tables of export_all_geojson, in the order of its list
GeojsonTables == <<"locations", "provinces", "roads", "people", "events">>

\* export_all_geojson from the i-th table: an exception of export_geojson
\* is caught and the next table is exported
RECURSIVE export_all_geojson(_, _, _, _)
export_all_geojson(file, content, files, i) ==
    IF i > Len(GeojsonTables) THEN files
    ELSE export_all_geojson(file, content,
             export_geojson(file, content, GeojsonTables[i],
                            [dir |-> "geojson", name |-> GeojsonTables[i]], files).files,
             i + 1)

\* export_all_csv: a file for each table that can be read
export_all_csv(file, content, files) ==
    IF file # "database" THEN files
    ELSE files \cup {[path |-> [dir |-> "csv", name |-> t],
                      content |-> [table |-> t, features |-> content[t].features]] :
                        t \in {u \in ExportTables : content[u].ok}}

\* Pipeline._run_export
_run_export(cfg, file, content, files) ==
    LET geojson == IF cfg.export_geojson
                   THEN export_all_geojson(file, content, files, 1) ELSE files
    IN IF cfg.export_csv THEN export_all_csv(file, content, geojson) ELSE geojson

\* The state before a pipeline is made: the pleiades source has its
\* records and processed/provinces.json is as transform_provinces writes it
InitPipeline ==
    /\ AppIdle
    /\ IndexIdle
    /\ sources = LocationSources
    /\ missing = {}
    /\ \E lp \in SeqsUpTo(EnrichSourceRecords("pleiades"), MaxPipelineRecords) :
           srcOut = [pleiades |-> lp, orbis |-> <<>>, topostext |-> <<>>]
    /\ provinces \in SeqsUpTo(EnrichProvinceRecords, MaxPipelineRecords)
    /\ locations = <<>>
    /\ prevLocations = <<>>
    /\ lastOp = "none"
    /\ junctions = {}

\* Pipeline(config)
NewPipeline ==
    /\ pc = "idle"
    /\ \E cfg \in PipelineConfigs : config' = <<cfg>>
    /\ pc' = "new"
    /\ UNCHANGED <<made, cfgCall, trace, dbVars, indexVars, locVars>>

\* Pipeline.run up to the first stage: the directories are made, or mkdir
\* raises
Run ==
    /\ pc = "new"
    /\ pc' \in {"download", "raised"}
    /\ UNCHANGED <<cfgVars, trace, dbVars, indexVars, locVars>>

\* _run_download
Download ==
    /\ \E outcome \in StageOutcomes : Called("download", outcome)
    /\ UNCHANGED <<cfgVars, dbVars, indexVars, locVars>>

\* _run_transform
Transform ==
    /\ \E outcome \in StageOutcomes :
           /\ Called("transform", outcome)
           /\ IF outcome = "returned"
              THEN /\ prevLocations' = Gathered(sources, missing, srcOut)
                   /\ locations' = transform_locations(sources, missing, srcOut)
                   /\ lastOp' = "transform_locations"
              ELSE UNCHANGED <<prevLocations, locations, lastOp>>
    /\ UNCHANGED <<sources, missing, srcOut, provinces, junctions, cfgVars, dbVars, indexVars>>

\* _run_enrich
Enrich ==
    /\ \E outcome \in StageOutcomes :
           /\ Called("enrich", outcome)
           /\ IF outcome = "returned"
              THEN /\ prevLocations' = locations
                   /\ locations' = enrich_locations(locations, provinces)
                   /\ junctions' = IF locations = <<>> THEN junctions ELSE JunctionTables
                   /\ lastOp' = "enrich_all"
              ELSE UNCHANGED <<prevLocations, locations, junctions, lastOp>>
    /\ UNCHANGED <<sources, missing, srcOut, provinces, cfgVars, dbVars, indexVars>>

\* _run_build
Build ==
    /\ \E outcome \in StageOutcomes :
           /\ Called("build", outcome)
           /\ IF outcome = "returned"
              THEN /\ dbFile' = "database"
                   /\ dbContent' \in Databases
              ELSE UNCHANGED <<dbFile, dbContent>>
    /\ UNCHANGED <<outputs, report, cfgVars, indexVars, locVars>>

\* _run_validate: run does not keep the result
Validate ==
    /\ \E outcome \in StageOutcomes : Called("validate", outcome)
    /\ UNCHANGED <<cfgVars, dbVars, indexVars, locVars>>

\* _run_export
Export ==
    /\ \E outcome \in StageOutcomes :
           /\ Called("export", outcome)
           /\ outputs' = IF outcome = "returned"
                         THEN _run_export(config[1], dbFile, dbContent, outputs)
                         ELSE outputs
    /\ UNCHANGED <<dbFile, dbContent, report, cfgVars, indexVars, locVars>>

NextPipeline ==
    NewPipeline \/ Run \/ Download \/ Transform \/ Enrich \/ Build \/ Validate \/ Export

----------------------------------------------------------------------------
(* Properties of Pipeline.run *)

\* The stages of a run that no exception stops, in order
StageOrder(cfg) ==
    <<"download", "transform", "enrich", "build">>
        \o (IF cfg.validate_output THEN <<"validate">> ELSE <<>>)
        \o (IF cfg.export_geojson \/ cfg.export_csv THEN <<"export">> ELSE <<>>)

\* C29: the stages of a run are called in the order download, transform,
\* enrich, build, validate when validate_output is set, export when
\* export_geojson or export_csv is set; a stage is called only when the one
\* before it has returned, and no stage is called after one that raised; so
\* the database is built only after the region assignment, which follows
\* the aggregation of the locations.
C29_StageOrder ==
    pc \notin {"idle", "new"} =>
        LET order == StageOrder(config[1])
            n == Len(trace)
        IN /\ n <= Len(order)
           /\ \A i \in 1..n : trace[i].stage = order[i]
           /\ \A i \in 1..(n - 1) : trace[i].outcome = "returned"
           /\ (n > 0 /\ trace[n].outcome = "raised") => pc = "raised"
           /\ pc = "returned" => (n = Len(order) /\ trace[n].outcome = "returned")
           /\ pc \notin {"returned", "raised"} => (n < Len(order) /\ pc = order[n + 1])
           /\ (\E i \in 1..n : trace[i].stage = "enrich" /\ trace[i].outcome = "returned")
                  => lastOp = "enrich_all"
           /\ dbFile = "database" => lastOp = "enrich_all"

\* A run without validation has exported after the build and returned,
\* with a location that the region assignment has given a province
C29_Witness ==
    /\ pc = "returned"
    /\ ~config[1].validate_output
    /\ config[1].export_csv
    /\ Len(trace) = 5
    /\ outputs # {}
    /\ \E i \in 1..Len(locations) : locations[i].province_id # None

----------------------------------------------------------------------------
SpecIndex == InitIndex /\ [][NextIndex]_vars

SpecArguments == InitArguments /\ [][NextArguments]_vars

SpecAggregate == InitAggregate /\ [][NextAggregate]_vars

SpecDedup == InitDedup /\ [][NextDedup]_vars

SpecReconcile == InitReconcile /\ [][NextReconcile]_vars

SpecEnrich == InitEnrich /\ [][NextEnrich]_vars

SpecConfig == InitConfig /\ [][NextConfig]_vars

SpecValidate == InitDatabase /\ [][NextValidate]_vars

SpecExport == InitDatabase /\ [][NextExport]_vars

SpecPipeline == InitPipeline /\ [][NextPipeline]_vars

====
